---- MODULE Spec2Model ----
(***************************************************************************)
(* Q15 saturating axpy, y = sat16(a + alpha * b): the scalar reference     *)
(* q15_axpy_ref, the capability-gated kernel q15_axpy_rvv (scalar fallback *)
(* or RVV strip-mined loop) and the verifier verify_equal, driven in the   *)
(* order main() calls them.                                                *)
(*                                                                         *)
(* Buffers are functions from the C index (0-based) to the stored value;   *)
(* the domain of an output buffer is the set of cells written so far.      *)
(* A local that holds no value yet is <<>>, one that holds v is <<v>>.     *)
(***************************************************************************)
EXTENDS Integers, Sequences, FiniteSets, TLC

\* ------------------------------------------------------------------ bounds
MaxN == 2          \* longest buffer in the full-range specifications
MaxGroupN == 4     \* longest buffer in the group-width specification

\* --------------------------------------------------------- program constants
Q15_MAX == 32767
Q15_MIN == -32768
NCLIP_SHIFT == 15
EXAMPLE_ALPHA == 3
INT32_MAX == 2147483647
INT32_MIN == (-INT32_MAX) - 1

\* int16 values the inputs are drawn from: both ends of the range, zero and
\* its neighbours.  Vals feeds the verifier, KernelVals the kernels,
\* GroupVals the runs that vary lengths and group widths.
Vals == {Q15_MIN, -1, 0, 1, Q15_MAX}
KernelVals == {Q15_MIN, -1, 0, Q15_MAX}
GroupVals == {0, Q15_MAX}

Max(x, y) == IF x > y THEN x ELSE y
Indices(len) == 0..(len - 1)
Buffers(len, S) == [Indices(len) -> S]
Empty == [k \in {} |-> 0]

\* --------------------------------------------------------- integer widths
\* (int16_t)v: keep the low 16 bits, read as two's complement
ToInt16(v) == ((v + 32768) % 65536) - 32768

\* A value held in an int32_t: the low 16 bits unchanged, the bits above them
\* kept to 16 bits two's complement (the wrap at 2^32, written on 16-bit
\* halves)
ToInt32(v) == ToInt16(v \div 65536) * 65536 + (v % 65536)

\* (int32_t)x for an int16_t x: sign extension keeps the value
Widen(x) == ToInt32(x)

\* ------------------------------------------------------------ scalar kernel
\* seeded fault: the narrowing cast alone, no clamp
sat_q15_wrap(v) == ToInt16(v)

\* seeded fault: symmetric saturation, the lower bound one too high
sat_q15_symmetric(v) ==
    IF v > 32767 THEN 32767
    ELSE IF v < -32767 THEN -32767
    ELSE ToInt16(v)

sat_q15_scalar(v) ==
    IF v > 32767 THEN 32767
    ELSE IF v < -32768 THEN -32768
    ELSE ToInt16(v)

\* seeded fault: the accumulator kept in 16 bits
q15_acc16(av, alphav, bv) == ToInt16(av + ToInt16(alphav * bv))

\* int32_t acc = (int32_t)a[i] + (int32_t)alpha * (int32_t)b[i];
q15_acc(av, alphav, bv) == ToInt32(Widen(av) + ToInt32(Widen(alphav) * Widen(bv)))

\* seeded fault: the loop runs one element too far
RefLoopTestLE(i, len) == i <= len

\* the loop test of q15_axpy_ref
RefLoopTest(i, len) == i < len

\* What a read of buf[k] can give: the stored value, or any int16 bit
\* pattern when the cell lies outside the buffer or was never written
LoadSet(buf, k) == IF k \in DOMAIN buf THEN {buf[k]} ELSE Vals

Store(buf, k, v) == [j \in DOMAIN buf \cup {k} |-> IF j = k THEN v ELSE buf[j]]

\* ------------------------------------------------------------ RVV intrinsics
\* vsetvl_e16m2(avl): the vector length granted for avl remaining elements.
\* The instruction grants 0 for avl = 0 and otherwise some vl with
\* 1 <= vl <= avl (vl = avl when avl <= VLMAX, VLMAX when avl >= 2*VLMAX);
\* over every VLMAX this is the set below.
vsetvl_e16m2(avl) == IF avl <= 0 THEN {0} ELSE 1..avl

\* vle16_v_i16m2(&buf[i], vl): lanes 1..vl hold buf[i .. i+vl-1]
vle16_v_i16m2(buf, i, vl) ==
    IF \A k \in i..(i + vl - 1) : k \in DOMAIN buf
    THEN {[k \in 1..vl |-> buf[i + k - 1]]}
    ELSE {v \in [1..vl -> Vals] :
            \A k \in 1..vl : (i + k - 1) \in DOMAIN buf => v[k] = buf[i + k - 1]}

\* vmul_vx_i32m4(vs, x, vl): SEW=32 product of each lane with the scalar,
\* low 32 bits.  The source passes the e16 register group vb; its lanes are
\* taken by value.
vmul_vx_i32m4(vs, x, vl) == [k \in 1..vl |-> ToInt32(vs[k] * Widen(x))]

\* vwadd_vx_i32m4(vs, x, vl): widening add, int16 lane + int16 scalar in 32 bits
vwadd_vx_i32m4(vs, x, vl) == [k \in 1..vl |-> ToInt32(Widen(vs[k]) + Widen(x))]

\* vadd_vv_i32m4(v1, v2, vl): SEW=32 add, low 32 bits
vadd_vv_i32m4(v1, v2, vl) == [k \in 1..vl |-> ToInt32(v1[k] + v2[k])]

\* bit k of v, two's complement (\div rounds toward minus infinity)
Bit(v, k) == (v \div (2 ^ k)) % 2
LowBits(v, k) == v % (2 ^ k)

\* The rounding increment of the fixed-point rounding mode vxrm for a right
\* shift by d: 0 rnu, 1 rne, 2 rdn, 3 rod
RoundIncrement(v, d, vxrm) ==
    IF d = 0 THEN 0
    ELSE IF vxrm = 0 THEN Bit(v, d - 1)
    ELSE IF vxrm = 1
         THEN (IF Bit(v, d - 1) = 1 /\ (LowBits(v, d - 1) # 0 \/ Bit(v, d) = 1)
               THEN 1 ELSE 0)
    ELSE IF vxrm = 2 THEN 0
    ELSE (IF Bit(v, d) = 0 /\ LowBits(v, d) # 0 THEN 1 ELSE 0)

roundoff_signed(v, d, vxrm) == (v \div (2 ^ d)) + RoundIncrement(v, d, vxrm)

clip_i16(v) == IF v > 32767 THEN 32767 ELSE IF v < -32768 THEN -32768 ELSE v

\* vnclip_wx_i16m2(vs, shift, vl): each 32-bit lane shifted right by the low
\* five bits of shift, rounded per vxrm, then saturated to int16
vnclip_wx_i16m2(vs, shift, vl, vxrm) ==
    [k \in 1..vl |-> clip_i16(roundoff_signed(vs[k], shift % 32, vxrm))]

\* vse16_v_i16m2(&buf[i], vs, vl): buf[i .. i+vl-1] := lanes 1..vl
vse16_v_i16m2(buf, i, vs, vl) ==
    [j \in DOMAIN buf \cup i..(i + vl - 1) |->
        IF j \in i..(i + vl - 1) THEN vs[j - i + 1] ELSE buf[j]]

\* seeded fault: the whole length, not the remaining length, is requested
RvvAvlWhole(len, i) == len

\* seeded fault: the body runs once more when the cursor has reached the end
RvvLoopTestLE(i, len) == i <= len

\* the argument of vsetvl and the loop test of the strip-mined loop
RvvAvl(len, i) == len - i
RvvLoopTest(i, len) == i < len

\* the shift amount handed to vnclip
RvvClipShift == NCLIP_SHIFT

\* seeded fault: the two input buffers change places
FallbackArgsSwapped(pa, pb, pn, palpha) == [a |-> pb, b |-> pa, n |-> pn, alpha |-> palpha]

\* the arguments the fallback branch hands to q15_axpy_ref
FallbackArgs(pa, pb, pn, palpha) == [a |-> pa, b |-> pb, n |-> pn, alpha |-> palpha]

\* ------------------------------------------------------------------- state
VARIABLES
    a, b,               \* the input buffers
    n,                  \* the length main passes to all three functions
    alpha,              \* the scalar gain
    cap,                \* allocated lengths of the output buffers y0, y1
    y0, y1,             \* the outputs of q15_axpy_ref and q15_axpy_rvv
    vector_capability,  \* TRUE when the #else branch of q15_axpy_rvv is built
    pc,                 \* where the program is
    fr,                 \* the frame of q15_axpy_ref
    rvv,                \* the frame of the vector loop of q15_axpy_rvv
    ver,                \* the frame of verify_equal
    ok, md,             \* main's ok and md
    loads, stores,      \* element loads from a or b, element stores to y
    maxIdx,             \* highest index a kernel has loaded from or stored to
    hits,               \* index -> times the vector loop has processed it
    err                 \* error kind a call has reported

vars == <<a, b, n, alpha, cap, y0, y1, vector_capability, pc, fr, rvv, ver,
          ok, md, loads, stores, maxIdx, hits, err>>

inputs == <<a, b, n, alpha, cap, vector_capability>>

NoRef == [a |-> Empty, b |-> Empty, y |-> "", n |-> 0, alpha |-> 0,
          i |-> 0, acc |-> <<>>, ret |-> ""]
NoRvv == [i |-> 0, vl |-> <<>>, vxrm |-> 0, vacc |-> <<>>, vy |-> <<>>]
NoVer == [i |-> 0, ok |-> 1, md |-> 0]

\* ---------------------------------------------------------------- initial
InitRest ==
    /\ y0 = Empty /\ y1 = Empty
    /\ fr = NoRef /\ rvv = NoRvv /\ ver = NoVer
    /\ ok = 1 /\ md = 0
    /\ loads = 0 /\ stores = 0 /\ maxIdx = -1
    /\ hits = Empty
    /\ err = "none"

\* main: four buffers of the same length, filled over the int16 range
Init ==
    /\ n \in 0..MaxN
    /\ a \in Buffers(n, KernelVals)
    /\ b \in Buffers(n, KernelVals)
    /\ alpha \in KernelVals \cup {EXAMPLE_ALPHA}
    /\ cap = [y0 |-> n, y1 |-> n]
    /\ vector_capability \in BOOLEAN
    /\ pc = "main_ref"
    /\ InitRest

\* ---------------------------------------------------------- q15_axpy_ref
\* main: q15_axpy_ref(a, b, y0, N, alpha)
MainCallRef ==
    /\ pc = "main_ref"
    /\ fr' = [a |-> a, b |-> b, y |-> "y0", n |-> n, alpha |-> alpha,
              i |-> 0, acc |-> <<>>, ret |-> "main"]
    /\ pc' = "ref"
    /\ UNCHANGED <<inputs, y0, y1, rvv, ver, ok, md, loads, stores, maxIdx, hits, err>>

\* one iteration of the loop of q15_axpy_ref
RefStep ==
    /\ pc = "ref"
    /\ RefLoopTest(fr.i, fr.n)
    /\ \E av \in LoadSet(fr.a, fr.i), bv \in LoadSet(fr.b, fr.i) :
         LET acc == q15_acc(av, fr.alpha, bv)
             out == sat_q15_scalar(acc)
         IN /\ fr' = [fr EXCEPT !.acc = <<acc>>, !.i = fr.i + 1]
            /\ IF fr.y = "y0"
               THEN y0' = Store(y0, fr.i, out) /\ y1' = y1
               ELSE y1' = Store(y1, fr.i, out) /\ y0' = y0
    /\ loads' = loads + 2
    /\ stores' = stores + 1
    /\ maxIdx' = Max(maxIdx, fr.i)
    /\ UNCHANGED <<inputs, pc, rvv, ver, ok, md, hits, err>>

\* the loop of q15_axpy_ref ends and the function returns (to main, or to
\* q15_axpy_rvv, which returns at once)
RefReturn ==
    /\ pc = "ref"
    /\ ~RefLoopTest(fr.i, fr.n)
    /\ pc' = IF fr.ret = "main" THEN "main_rvv" ELSE "main_verify"
    /\ fr' = NoRef
    /\ UNCHANGED <<inputs, y0, y1, rvv, ver, ok, md, loads, stores, maxIdx, hits, err>>

\* ---------------------------------------------------------- q15_axpy_rvv
\* main: q15_axpy_rvv(a, b, y1, N, alpha), built without the vector
\* capability: the call of q15_axpy_ref
RvvFallback ==
    /\ pc = "main_rvv"
    /\ ~vector_capability
    /\ LET args == FallbackArgs(a, b, n, alpha)
       IN fr' = [a |-> args.a, b |-> args.b, y |-> "y1", n |-> args.n,
                 alpha |-> args.alpha, i |-> 0, acc |-> <<>>, ret |-> "rvv"]
    /\ pc' = "ref"
    /\ UNCHANGED <<inputs, y0, y1, rvv, ver, ok, md, loads, stores, maxIdx, hits, err>>

\* the vector branch is entered: vl is declared without a value, i = 0, and
\* the rounding mode register holds whatever the platform left in it
RvvEnter ==
    /\ pc = "main_rvv"
    /\ vector_capability
    /\ \E mode \in 0..3 :
         rvv' = [i |-> 0, vl |-> <<>>, vxrm |-> mode, vacc |-> <<>>, vy |-> <<>>]
    /\ pc' = "rvv"
    /\ UNCHANGED <<inputs, y0, y1, fr, ver, ok, md, loads, stores, maxIdx, hits, err>>

\* one group: vsetvl, two loads, multiply, widen, add, narrowing clip, store,
\* and the advance of the cursor by vl
RvvGroup ==
    /\ pc = "rvv"
    /\ RvvLoopTest(rvv.i, n)
    /\ \E vl \in vsetvl_e16m2(RvvAvl(n, rvv.i)) :
       \E va \in vle16_v_i16m2(a, rvv.i, vl), vb \in vle16_v_i16m2(b, rvv.i, vl) :
         LET vprod == vmul_vx_i32m4(vb, alpha, vl)
             va_ext == vwadd_vx_i32m4(va, 0, vl)
             vacc == vadd_vv_i32m4(va_ext, vprod, vl)
             vy == vnclip_wx_i16m2(vacc, RvvClipShift, vl, rvv.vxrm)
             group == rvv.i..(rvv.i + vl - 1)
         IN /\ y1' = vse16_v_i16m2(y1, rvv.i, vy, vl)
            /\ rvv' = [rvv EXCEPT !.vl = <<vl>>, !.vacc = vacc, !.vy = vy,
                                  !.i = rvv.i + vl]
            /\ loads' = loads + 2 * vl
            /\ stores' = stores + vl
            /\ maxIdx' = Max(maxIdx, rvv.i + vl - 1)
            /\ hits' = [k \in DOMAIN hits \cup group |->
                          (IF k \in DOMAIN hits THEN hits[k] ELSE 0)
                          + (IF k \in group THEN 1 ELSE 0)]
    /\ UNCHANGED <<inputs, y0, pc, fr, ver, ok, md, err>>

\* the vector loop ends and q15_axpy_rvv returns
RvvReturn ==
    /\ pc = "rvv"
    /\ ~RvvLoopTest(rvv.i, n)
    /\ pc' = "main_verify"
    /\ rvv' = NoRvv
    /\ UNCHANGED <<inputs, y0, y1, fr, ver, ok, md, loads, stores, maxIdx, hits, err>>

\* ---------------------------------------------------------- verify_equal
\* main: ok = verify_equal(y0, y1, N, &md)
VerifyEnter ==
    /\ pc = "main_verify"
    /\ ver' = [i |-> 0, ok |-> 1, md |-> 0]
    /\ pc' = "verify"
    /\ UNCHANGED <<inputs, y0, y1, fr, rvv, ok, md, loads, stores, maxIdx, hits, err>>

\* seeded fault: the difference kept in 16 bits
abs_diff16(r, t) ==
    LET d == ToInt16(r - t)
    IN IF d < 0 THEN ToInt16(0 - d) ELSE d

\* int32_t d = (int32_t)ref[i] - (int32_t)test[i]; if (d < 0) d = -d;
abs_diff(r, t) ==
    LET d == ToInt32(Widen(r) - Widen(t))
    IN IF d < 0 THEN ToInt32(0 - d) ELSE d

\* one iteration of the loop of verify_equal
VerifyStep ==
    /\ pc = "verify"
    /\ ver.i < n
    /\ \E r \in LoadSet(y0, ver.i), t \in LoadSet(y1, ver.i) :
         LET d == abs_diff(r, t)
         IN ver' = [i |-> ver.i + 1,
                    md |-> IF d > ver.md THEN d ELSE ver.md,
                    ok |-> IF d # 0 THEN 0 ELSE ver.ok]
    /\ UNCHANGED <<inputs, y0, y1, pc, fr, rvv, ok, md, loads, stores, maxIdx, hits, err>>

\* *max_diff = md; return ok;
VerifyReturn ==
    /\ pc = "verify"
    /\ ~(ver.i < n)
    /\ md' = ver.md
    /\ ok' = ver.ok
    /\ pc' = "done"
    /\ UNCHANGED <<inputs, y0, y1, fr, rvv, ver, loads, stores, maxIdx, hits, err>>

Next ==
    \/ MainCallRef
    \/ RefStep
    \/ RefReturn
    \/ RvvFallback
    \/ RvvEnter
    \/ RvvGroup
    \/ RvvReturn
    \/ VerifyEnter
    \/ VerifyStep
    \/ VerifyReturn

Spec == Init /\ [][Next]_vars

\* ------------------------------------------------ the strip-mined loop alone
\* main's gain, longer buffers, two sample values
InitGroups ==
    /\ n \in 0..MaxGroupN
    /\ a \in Buffers(n, GroupVals)
    /\ b \in Buffers(n, GroupVals)
    /\ alpha = EXAMPLE_ALPHA
    /\ cap = [y0 |-> n, y1 |-> n]
    /\ vector_capability \in BOOLEAN
    /\ pc = "main_ref"
    /\ InitRest

SpecGroups == InitGroups /\ [][Next]_vars

\* ------------------------------------------------------ verify_equal alone
\* verify_equal called on two arbitrary buffers of length n
InitVerify ==
    /\ n \in 0..MaxN
    /\ a = Empty /\ b = Empty /\ alpha = 0
    /\ cap = [y0 |-> n, y1 |-> n]
    /\ vector_capability = FALSE
    /\ pc = "main_verify"
    /\ y0 \in Buffers(n, Vals)
    /\ y1 \in Buffers(n, Vals)
    /\ fr = NoRef /\ rvv = NoRvv /\ ver = NoVer
    /\ ok = 1 /\ md = 0
    /\ loads = 0 /\ stores = 0 /\ maxIdx = -1
    /\ hits = Empty
    /\ err = "none"

NextVerify ==
    \/ VerifyEnter
    \/ VerifyStep
    \/ VerifyReturn

SpecVerify == InitVerify /\ [][NextVerify]_vars

\* ------------------------------------- callers whose buffers differ in length
\* The functions take one length n >= 1 and four pointers; a caller may hold
\* buffers of different allocated lengths, each at least n.
InitLen ==
    /\ n \in 1..MaxN
    /\ \E la \in n..MaxN, lb \in n..MaxN :
         /\ a \in Buffers(la, GroupVals)
         /\ b \in Buffers(lb, GroupVals)
    /\ alpha = EXAMPLE_ALPHA
    /\ cap \in [y0 : {n, n + 1}, y1 : {n, n + 1}]
    /\ vector_capability \in BOOLEAN
    /\ pc = "main_ref"
    /\ InitRest

SpecLen == InitLen /\ [][Next]_vars
\* ===================================================================== claims
Clamp(v) == IF v > Q15_MAX THEN Q15_MAX ELSE IF v < Q15_MIN THEN Q15_MIN ELSE v
Abs(v) == IF v < 0 THEN 0 - v ELSE v
SetMax(S) == IF S = {} THEN 0 ELSE CHOOSE m \in S : \A x \in S : x <= m
RefDone == pc = "main_rvv"
RvvDone == pc = "main_verify"
UnequalInputs == DOMAIN a # DOMAIN b
UnequalOutputs == cap.y0 # cap.y1

\* C1: on the vectorized path, once q15_axpy_rvv has returned, y1[i] = y0[i]
\* for every i in 0..n-1 (the vector kernel writes what the scalar kernel
\* writes).
C1_VectorEqualsRef ==
    (vector_capability /\ RvvDone) => \A i \in Indices(n) : y1[i] = y0[i]

\* C2: after q15_axpy_ref, y0[i] is a[i] + alpha*b[i] clamped into
\* [-32768, 32767]; 32767*32767 + 32767 gives 32767 and
\* 32767*(-32768) + (-32768) gives -32768.
C2_RefSaturates ==
    RefDone =>
        /\ DOMAIN y0 = Indices(n)
        /\ \A i \in Indices(n) : y0[i] = Clamp(a[i] + alpha * b[i])
        /\ \A i \in Indices(n) :
             /\ (a[i] = 32767 /\ b[i] = 32767 /\ alpha = 32767) => y0[i] = 32767
             /\ (a[i] = -32768 /\ b[i] = -32768 /\ alpha = 32767) => y0[i] = -32768

C2_Witness ==
    /\ RefDone /\ n = 1
    /\ a[0] = 32767 /\ b[0] = 32767 /\ alpha = 32767
    /\ y0[0] = 32767

\* C3: the accumulator computed before saturation, in the scalar loop and in
\* every lane of the vector loop, is the unbounded value a[i] + alpha*b[i]
\* and lies in [-2^31, 2^31 - 1].
C3_AccumulatorExact ==
    /\ (pc = "ref" /\ fr.acc # <<>>) =>
          LET i == fr.i - 1
              m == fr.a[i] + fr.alpha * fr.b[i]
          IN fr.acc[1] = m /\ INT32_MIN <= m /\ m <= INT32_MAX
    /\ (pc = "rvv" /\ rvv.vl # <<>>) =>
          \A k \in 1..rvv.vl[1] :
             LET i == rvv.i - rvv.vl[1] + k - 1
                 m == a[i] + alpha * b[i]
             IN rvv.vacc[k] = m /\ INT32_MIN <= m /\ m <= INT32_MAX

C3_Witness ==
    /\ pc = "ref" /\ fr.i = 1
    /\ fr.a[0] = 32767 /\ fr.b[0] = -32768 /\ fr.alpha = -32768
    /\ fr.acc = <<1073774591>>

\* C4: verify_equal returns 1 exactly when the two buffers agree at every
\* index below n, and *max_diff is the largest |ref[i] - test[i]| (0 for
\* n = 0 or equal buffers, 65535 for 32767 against -32768, 32768 for 0
\* against -32768).
C4_VerifyExact ==
    pc = "done" =>
        /\ ok \in {0, 1}
        /\ (ok = 1) <=> (\A i \in Indices(n) : y0[i] = y1[i])
        /\ md = SetMax({Abs(y0[i] - y1[i]) : i \in Indices(n)})
        /\ (y0 = y1) => (ok = 1 /\ md = 0)
        /\ (n = 1 /\ y0[0] = 0 /\ y1[0] = -32768) => (ok = 0 /\ md = 32768)

C4_Witness ==
    /\ pc = "done" /\ n = 2
    /\ y0[0] = 0 /\ y1[0] = 0
    /\ y0[1] = 32767 /\ y1[1] = -32768
    /\ ok = 0 /\ md = 65535

\* C5: without the vector capability q15_axpy_rvv calls q15_axpy_ref with its
\* own arguments, and its output buffer equals that of q15_axpy_ref.
C5_FallbackEqualsRef ==
    /\ (pc = "ref" /\ fr.ret = "rvv") =>
          (fr.a = a /\ fr.b = b /\ fr.n = n /\ fr.alpha = alpha /\ fr.y = "y1")
    /\ (~vector_capability /\ RvvDone) => y1 = y0

C5_Witness ==
    /\ ~vector_capability /\ RvvDone /\ n = 2
    /\ a[0] # b[0] /\ alpha = -1
    /\ y1 = y0 /\ y0[0] = Q15_MAX

\* C6: with n = 0 neither kernel loads from a or b or stores to y, the group
\* width vl is never given or asked for a value, and verify_equal returns 1
\* with *max_diff = 0.
C6_ZeroLength ==
    n = 0 =>
        /\ loads = 0 /\ stores = 0 /\ maxIdx = -1
        /\ y0 = Empty /\ y1 = Empty
        /\ rvv.vl = <<>> /\ rvv.i = 0 /\ hits = Empty
        /\ fr.acc = <<>>
        /\ (pc = "done") => (ok = 1 /\ md = 0)

C6_Witness == n = 0 /\ pc = "done" /\ vector_capability /\ ok = 1 /\ md = 0

\* C7: with b all zeros and alpha = 0, q15_axpy_ref writes y0[i] = a[i] for
\* every i in 0..n-1.
C7_Identity ==
    (RefDone /\ alpha = 0 /\ \A i \in Indices(n) : b[i] = 0) => y0 = a

C7_Witness ==
    /\ RefDone /\ alpha = 0 /\ n = 2
    /\ b[0] = 0 /\ b[1] = 0
    /\ a[0] = Q15_MIN /\ a[1] = Q15_MAX
    /\ y0 = a

C9_GroupsCoverOnce ==
    /\ (pc = "rvv") =>
          /\ 0 <= rvv.i /\ rvv.i <= n
          /\ DOMAIN hits = Indices(rvv.i)
          /\ \A k \in DOMAIN hits : hits[k] = 1
          /\ DOMAIN y1 = Indices(rvv.i)
          /\ (rvv.vl # <<>>) => (1 <= rvv.vl[1] /\ rvv.vl[1] <= rvv.i)
          /\ (rvv.i >= n) => rvv.i = n
    /\ maxIdx < n
    /\ (vector_capability /\ RvvDone) =>
          (DOMAIN hits = Indices(n) /\ \A k \in DOMAIN hits : hits[k] = 1)

C9_Witness ==
    /\ pc = "rvv" /\ n = 4 /\ rvv.i = n
    /\ rvv.vl = <<1>>
    /\ \A k \in Indices(n) : hits[k] = 1

\* C10: in each group, the narrowing step stores clamp(acc, -32768, 32767)
\* for every accumulator lane acc, with no shift or rounding before the clamp.
C10_NarrowingIsClamp ==
    (pc = "rvv" /\ rvv.vl # <<>>) =>
        \A k \in 1..rvv.vl[1] : rvv.vy[k] = Clamp(rvv.vacc[k])
====
